---- MODULE Spec2Model ----
(***************************************************************************)
(* Attendance state machine and facial enrollment of bioatten-backend.     *)
(*                                                                         *)
(* Every HTTP handler is a call with a program counter; one action is one  *)
(* database statement (or one committed transaction) of the handler, so    *)
(* that concurrent requests interleave at the granularity the database     *)
(* (READ COMMITTED) allows.  Tables are sets of rows with a primary key.   *)
(*                                                                         *)
(* Two specifications share the variables:                                 *)
(*   Spec        the attendance endpoints (students are already enrolled)  *)
(*   EnrollSpec  the enrollment endpoints (empty enrollment table)         *)
(***************************************************************************)
EXTENDS Integers, Sequences, FiniteSets, TLC

\* ---------------------------------------------------------------- bounds
NumStudents == 3
NumAttendees == 1
MaxCalls == 2
TimeSpan == 0
MaxEnrollCalls == 2
MaxRequests == 1
MaxSchedules == 1

\* -------------------------------------------------------------- constants
\* Schedule.start_time of the one schedule of the model, seconds of the day (09:00).
start_time == 32400
\* "Consider late if more than 10 minutes after start"
GracePeriod == 600
\* Schedule.clock_in_opens_at and Schedule.clock_in_closes_at of that schedule:
\* the window opens five minutes before the start and closes with the grace
\* period, which the validation of the schedule accepts
clock_in_opens_at == start_time - 300
clock_in_closes_at == start_time + GracePeriod
\* FaceVerificationService.__init__(similarity_threshold=0.6), in percent
similarity_threshold == 60
\* duplicate_threshold = 0.95, in percent
duplicate_threshold == 95
\* "if results['faces_detected'] < 5"
MinFaces == 5

None == 0 - 1

Students == 1..NumStudents
\* the students whose attendance the model follows
Attendees == 1..NumAttendees
Schedules == {"sch1"}
Dates == {"today"}
Faculty == {"prof"}

\* The instants the clock can show: before the class, around the end of the
\* grace period, and the end of the observation (never read by a call).
Times ==
    {start_time - 300, start_time + 3600}
        \cup ((start_time + GracePeriod - TimeSpan)..(start_time + GracePeriod + 1))

FirstTime == CHOOSE t \in Times : \A u \in Times : t <= u

\* ------------------------------------------------------------- embeddings
\* Embeddings are integer vectors; the face of student s is FaceOf(s).  Stranger
\* is a face of nobody.  cos(<<10,0>>, <<10,3>>) = 0.957, cos(<<10,0>>, <<9,3>>) = 0.948,
\* cos(<<10,0>>, <<3,4>>) = 0.6, cos(<<10,0>>, <<0,7>>) = 0.
FaceA == <<10, 0>>
FaceNearA == <<10, 3>>
FaceBelowA == <<9, 3>>
FaceAtVerify == <<3, 4>>
FaceB == <<0, 7>>
\* cos(<<10,0>>, <<10,-2>>) = 0.980, cos(<<10,3>>, <<10,-2>>) = 0.882
FaceNearA2 == <<10, 0 - 2>>
\* cos(<<10,0>>, <<4,3>>) = 0.8
FaceAtRemote == <<4, 3>>
Faces == {FaceA, FaceNearA, FaceBelowA, FaceAtVerify, FaceB}

FaceOf(s) == IF s = 1 THEN FaceA ELSE IF s = 2 THEN FaceB ELSE FaceAtVerify

Dot(a, b) == a[1] * b[1] + a[2] * b[2]

\* np.linalg.norm(e) == 0
NormIsZero(e) == Dot(e, e) = 0

\* FaceVerificationService.calculate_cosine_similarity, as a percentage rounded
\* towards zero: 0 when a norm is 0, else dot(e1/|e1|, e2/|e2|).
calculate_cosine_similarity(e1, e2) ==
    IF NormIsZero(e1) \/ NormIsZero(e2) THEN 0
    ELSE LET d == Dot(e1, e2)
             nn == Dot(e1, e1) * Dot(e2, e2)
             mag == CHOOSE k \in 0..100 :
                        /\ k * k * nn <= 10000 * d * d
                        /\ (k = 100 \/ (k + 1) * (k + 1) * nn > 10000 * d * d)
         IN IF d >= 0 THEN mag ELSE 0 - mag

\* ------------------------------------------------------------------ state
VARIABLES
    now,          \* the wall clock (timezone.now()), seconds of the day
    logs,         \* table attendance_logs
    requests,     \* table of manual clock-in requests
    calls,        \* the attendance requests in flight: program counter and locals
    served,       \* per student, the successful clock-in and clock-out responses sent
    enrollments,  \* table facial_enrollments
    attempts,     \* table enrollment_attempts
    ecalls,       \* the enrollment requests: program counter and locals
    collection,   \* the faces indexed in the AWS Rekognition collection
    vcall,        \* the last verification applied: its inputs and its result
    schedules,    \* table schedules
    scall         \* the last schedule create request and its response

vars == <<now, logs, requests, calls, served, enrollments, attempts, ecalls,
          collection, vcall, schedules, scall>>

CallIds == 1..MaxCalls

\* ------------------------------------------------------- AttendanceLog rows
\* A row of attendance_logs with the field defaults of the model.
AttendanceLog(id, s, sch, d) ==
    [id |-> id, student |-> s, schedule |-> sch, date |-> d,
     status |-> "ABSENT", check_in_time |-> None, check_out_time |-> None,
     face_recognition_confidence |-> None,
     is_manual_override |-> FALSE, override_reason |-> "", override_by |-> ""]

NoRow == AttendanceLog(None, None, "", "")

\* the primary key the database gives to the next row of a table
NextId(tbl) ==
    IF tbl = {} THEN 1
    ELSE 1 + (CHOOSE m \in {r.id : r \in tbl} : \A r \in tbl : r.id <= m)

\* AttendanceLog.objects.filter(student=s, schedule=sch, date=d)
KeyRows(tbl, s, sch, d) ==
    {r \in tbl : r.student = s /\ r.schedule = sch /\ r.date = d}

\* (mutant) the table has no unique constraint
UniqueViolation_Off(tbl, s, sch, d) == FALSE

\* unique_together = [['student', 'schedule', 'date']]: the INSERT of a second
\* row with the key of an existing one raises IntegrityError.
UniqueViolation(tbl, s, sch, d) == KeyRows(tbl, s, sch, d) # {}

\* Model.save() of a loaded object: UPDATE of every column WHERE id = obj.id
save(tbl, obj) == {IF r.id = obj.id THEN obj ELSE r : r \in tbl}

\* (mutant) late from the end of the grace period on
IsLate_AtBoundary(t) == (t - start_time) >= GracePeriod

\* "Consider late if more than 10 minutes after start"
IsLate(t) == (t - start_time) > GracePeriod

\* (mutant) the "Check if late" block is missing
CheckIfLate_Never(obj, t) == obj

\* the "Check if late" block of clock_in and manual_clock_in
CheckIfLate(obj, t) == IF IsLate(t) THEN [obj EXCEPT !.status = "LATE"] ELSE obj

\* AttendanceLog.is_late
is_late(r) ==
    IF r.check_in_time # None THEN (r.check_in_time - start_time) > 600 ELSE FALSE

\* AttendanceLog.clean (called by full_clean only, never by save())
clean(r) ==
    /\ ~(r.check_out_time # None /\ r.check_in_time = None)
    /\ (r.check_in_time # None /\ r.check_out_time # None)
          => ~(r.check_in_time >= r.check_out_time)

\* ------------------------------------------------------------ verification
\* FacialEnrollment.objects.get(student_id=s, is_active=True)
ActiveEnrollment(s) == {e \in enrollments : e.student = s /\ e.is_active}

\* A snapshot: the faces it shows, largest first, whether the crop of a face
\* is not empty, whether face_recognition finds an encoding in it, and whether
\* the library or service that processes it raises (decoding, model, transport).
Snapshot(faces, crop_ok, encodable, fault) ==
    [faces |-> faces, crop_ok |-> crop_ok, encodable |-> encodable, fault |-> fault]

\* a good snapshot of one face
OneFace(f) == Snapshot(<<f>>, TRUE, TRUE, FALSE)

\* the result dictionary of a verification
VerifyResult(verified, confidence, message) ==
    [verified |-> verified, confidence |-> confidence, message |-> message]

\* (mutant) the enrollment is looked up without is_active=True
verify_face_AnyEnrollment(snap, s) ==
    LET mine == {e \in enrollments : e.student = s}
    IN IF mine = {} \/ snap.fault \/ Len(snap.faces) # 1 \/ ~snap.crop_ok \/ ~snap.encodable
       THEN VerifyResult(FALSE, 0, "Verification failed")
       ELSE LET enr == CHOOSE e \in mine : TRUE
                similarity == calculate_cosine_similarity(snap.faces[1], enr.embedding)
            IN VerifyResult(similarity >= similarity_threshold, similarity, "")

\* FaceVerificationService.verify_face
verify_face(snap, s) ==
    IF ActiveEnrollment(s) = {}
    THEN VerifyResult(FALSE, 0, "no active enrollment")
    ELSE IF snap.fault THEN VerifyResult(FALSE, 0, "Verification error")
    ELSE IF Len(snap.faces) = 0 THEN VerifyResult(FALSE, 0, "No face detected")
    ELSE IF Len(snap.faces) > 1 THEN VerifyResult(FALSE, 0, "Multiple faces detected")
    ELSE IF ~snap.crop_ok THEN VerifyResult(FALSE, 0, "Failed to process detected face")
    ELSE IF ~snap.encodable THEN VerifyResult(FALSE, 0, "Failed to extract face embedding")
    ELSE LET enr == CHOOSE e \in ActiveEnrollment(s) : TRUE
             similarity == calculate_cosine_similarity(snap.faces[1], enr.embedding)
         IN IF similarity >= similarity_threshold
            THEN VerifyResult(TRUE, similarity, "verified")
            ELSE VerifyResult(FALSE, similarity, "below threshold")

\* no schedule create request answered yet
IdleSCall == [start_time |-> None, end_time |-> None, clock_in_opens_at |-> None,
              clock_in_closes_at |-> None, status |-> 0, errors |-> {}]

\* ------------------------------------------------------------------ calls
IdleCall ==
    [op |-> "none", pc |-> "idle", student |-> None, date |-> "", actor |-> "",
     t |-> None, confidence |-> None, obj |-> NoRow, created |-> FALSE,
     result |-> "", after_check_in |-> FALSE, request_id |-> None, action |-> "",
     message |-> "", notice |-> "", after_check_out |-> FALSE]

\* no verification applied yet
IdleVCall ==
    [path |-> "none", student |-> None, snap |-> Snapshot(<<>>, FALSE, FALSE, FALSE),
     raised |-> FALSE, http |-> 0, result |-> VerifyResult(FALSE, 0, "")]

\* a worker is free (it has answered its last request); the lowest free one
\* takes the next request
Free(c) == calls[c].pc \in {"idle", "done"}

CanStart(c) ==
    /\ Free(c)
    /\ \A b \in CallIds : b < c => ~Free(b)

\* one more successful response of kind k ("ins", "outs") for student s,
\* counted up to 2
Served(s, k) == [served EXCEPT ![s][k] = IF @ < 2 THEN @ + 1 ELSE @]

\* timezone.now(): the value read, and the clock moves on
LaterTimes == {u \in Times : u > now}

HasCheckIn(s, sch, d) == \E r \in KeyRows(logs, s, sch, d) : r.check_in_time # None

HasCheckOut(s, sch, d) == \E r \in KeyRows(logs, s, sch, d) : r.check_out_time # None

\* the response is sent: the locals of the call are dropped
Done(c, res) ==
    [calls EXCEPT ![c] = [IdleCall EXCEPT !.op = calls[c].op, !.pc = "done", !.result = res,
                                          !.after_check_in = calls[c].after_check_in,
                                          !.after_check_out = calls[c].after_check_out]]

\* ------------------------------------------------- pusher_client.trigger
\* What a notification block meets: the event is sent; Pusher is not
\* configured; _client.trigger raises; or building the payload raises before
\* trigger is called (schedule.faculty is nullable).
PusherOutcomes == {"sent", "disabled", "client_raises", "payload_raises"}

\* trigger: "Returns True if attempted without exception"
trigger(o) == o = "sent"

\* what the try/except around a notification block leaves behind
Notice(o) ==
    IF o = "payload_raises" THEN "raised"
    ELSE IF trigger(o) THEN "sent" ELSE "false"

\* (mutant) an exception of the notification block reaches the handler
Respond_Propagates(c, o) ==
    IF Notice(o) = "raised" THEN [Done(c, "ERROR") EXCEPT ![c].notice = Notice(o)]
    ELSE [Done(c, "OK") EXCEPT ![c].notice = Notice(o)]

\* the notification block in its try/except, then the success response
Respond(c, o) == [Done(c, "OK") EXCEPT ![c].notice = Notice(o)]

\* "Save verification image": the image is stored; save_verification_image
\* fails and returns None; or decode_base64_image raises ValueError.
ImageOutcomes == {"stored", "not_saved", "decode_raises"}

\* ------------------------------------------------------ ClockInView.post
\* lines 53-93: verify the face; 401 when not verified; else read the clock
ClockIn_Verify(c, s, snap) ==
    /\ CanStart(c)
    /\ LET vr == verify_face(snap, s)
           started == [IdleCall EXCEPT !.op = "clock_in", !.student = s, !.date = "today",
                           !.after_check_in = HasCheckIn(s, "sch1", "today")]
       IN IF ~vr.verified
          THEN /\ calls' = [calls EXCEPT ![c] =
                     [started EXCEPT !.pc = "done", !.result = "NOT_VERIFIED",
                                     !.message = vr.message,
                                     !.confidence = vr.confidence,
                                     !.after_check_in = FALSE]]
               /\ now' = now
          ELSE /\ LaterTimes # {}
               /\ now' \in LaterTimes
               /\ calls' = [calls EXCEPT ![c] =
                     [started EXCEPT !.pc = "get", !.t = now, !.confidence = vr.confidence,
                         !.after_check_out = HasCheckOut(s, "sch1", "today")]]
    /\ UNCHANGED <<logs, requests, enrollments, attempts, ecalls, served, collection, vcall,
                   schedules, scall>>

\* (mutant) the "Already clocked in" check is missing
ClockIn_Existing_NoCheck(c, row) ==
    [calls EXCEPT ![c].pc = "save",
        ![c].obj = CheckIfLate([row EXCEPT !.check_in_time = calls[c].t,
                                   !.face_recognition_confidence = calls[c].confidence,
                                   !.status = "PRESENT"], calls[c].t)]

\* lines 108-132 for a log that exists (created = False)
ClockIn_Existing(c, row) ==
    IF row.check_in_time # None
    THEN Done(c, "ALREADY_CLOCKED_IN")
    ELSE [calls EXCEPT ![c].pc = "save",
             ![c].obj = CheckIfLate([row EXCEPT !.check_in_time = calls[c].t,
                                        !.face_recognition_confidence = calls[c].confidence,
                                        !.status = "PRESENT"], calls[c].t)]

\* line 97, the SELECT of get_or_create
ClockIn_Get(c) ==
    /\ calls[c].op = "clock_in" /\ calls[c].pc = "get"
    /\ LET rows == KeyRows(logs, calls[c].student, "sch1", calls[c].date)
       IN calls' = IF rows = {} THEN [calls EXCEPT ![c].pc = "create"]
                   ELSE IF Cardinality(rows) > 1 THEN Done(c, "ERROR")
                   ELSE ClockIn_Existing(c, CHOOSE r \in rows : TRUE)
    /\ UNCHANGED <<now, logs, requests, enrollments, attempts, ecalls, served, collection, vcall,
                   schedules, scall>>

\* line 97, the INSERT of get_or_create, with lines 125-146 and the commit of
\* the transaction, or its rollback when the image step raises; on
\* IntegrityError get_or_create selects again
ClockIn_Create(c) ==
    /\ calls[c].op = "clock_in" /\ calls[c].pc = "create"
    /\ LET s == calls[c].student
           d == calls[c].date
       IN IF UniqueViolation(logs, s, "sch1", d)
          THEN /\ calls' = ClockIn_Existing(c, CHOOSE r \in KeyRows(logs, s, "sch1", d) : TRUE)
               /\ logs' = logs
               /\ served' = served
          ELSE LET row == CheckIfLate(
                              [AttendanceLog(NextId(logs), s, "sch1", d) EXCEPT
                                  !.status = "PRESENT",
                                  !.check_in_time = calls[c].t,
                                  !.face_recognition_confidence = calls[c].confidence],
                              calls[c].t)
               IN \E img \in ImageOutcomes :
                     IF img = "decode_raises"
                     THEN /\ logs' = logs
                          /\ calls' = Done(c, "ERROR")
                          /\ served' = served
                     ELSE /\ logs' = logs \cup {row}
                          /\ \E o \in PusherOutcomes :
                                calls' = [Respond(c, o) EXCEPT ![c].created = TRUE]
                          /\ served' = Served(s, "ins")
    /\ UNCHANGED <<now, requests, enrollments, attempts, ecalls, collection, vcall,
                   schedules, scall>>

\* lines 134-146 for an existing log, and the commit of the transaction, or
\* its rollback when the image step raises
ClockIn_Save(c) ==
    /\ calls[c].op = "clock_in" /\ calls[c].pc = "save"
    /\ \E img \in ImageOutcomes :
          IF img = "decode_raises"
          THEN /\ logs' = logs
               /\ calls' = Done(c, "ERROR")
               /\ served' = served
          ELSE /\ logs' = save(logs, calls[c].obj)
               /\ \E o \in PusherOutcomes : calls' = Respond(c, o)
               /\ served' = Served(calls[c].student, "ins")
    /\ UNCHANGED <<now, requests, enrollments, attempts, ecalls, collection, vcall,
                   schedules, scall>>

\* ----------------------------------------------------- ClockOutView.post
\* lines 225-264: verify the face; 401 when not verified; else read the clock
ClockOut_Verify(c, s, snap) ==
    /\ CanStart(c)
    /\ LET vr == verify_face(snap, s)
           started == [IdleCall EXCEPT !.op = "clock_out", !.student = s, !.date = "today"]
       IN IF ~vr.verified
          THEN /\ calls' = [calls EXCEPT ![c] =
                     [started EXCEPT !.pc = "done", !.result = "NOT_VERIFIED",
                                     !.message = vr.message,
                                     !.confidence = vr.confidence]]
               /\ now' = now
          ELSE /\ LaterTimes # {}
               /\ now' \in LaterTimes
               /\ calls' = [calls EXCEPT ![c] =
                     [started EXCEPT !.pc = "get", !.t = now, !.confidence = vr.confidence,
                         !.after_check_out = HasCheckOut(s, "sch1", "today")]]
    /\ UNCHANGED <<logs, requests, enrollments, attempts, ecalls, served, collection, vcall,
                   schedules, scall>>

\* (mutant) the "Cannot clock out without clocking in first" check is missing
ClockOut_Found_NoCheckIn(c, row) ==
    IF row.check_out_time # None THEN Done(c, "ALREADY_CLOCKED_OUT")
    ELSE [calls EXCEPT ![c].pc = "save",
                       ![c].obj = [row EXCEPT !.check_out_time = calls[c].t]]

\* lines 274-294 on the log that was found
ClockOut_Found(c, row) ==
    IF row.check_in_time = None THEN Done(c, "NO_CHECK_IN")
    ELSE IF row.check_out_time # None THEN Done(c, "ALREADY_CLOCKED_OUT")
    ELSE [calls EXCEPT ![c].pc = "save",
                       ![c].obj = [row EXCEPT !.check_out_time = calls[c].t]]

\* lines 266-294 and 306-313: AttendanceLog.objects.get and the two checks
ClockOut_Get(c) ==
    /\ calls[c].op = "clock_out" /\ calls[c].pc = "get"
    /\ LET rows == KeyRows(logs, calls[c].student, "sch1", calls[c].date)
       IN calls' = IF rows = {} THEN Done(c, "NO_RECORD")
                   ELSE IF Cardinality(rows) > 1 THEN Done(c, "ERROR")
                   ELSE ClockOut_Found(c, CHOOSE r \in rows : TRUE)
    /\ UNCHANGED <<now, logs, requests, enrollments, attempts, ecalls, served, collection, vcall,
                   schedules, scall>>

\* line 295: attendance_log.save(), in autocommit (the view opens no
\* transaction), then lines 297-304: the image step, whose exception is not
\* caught by the except of line 306 and becomes a 500 response
ClockOut_Save(c) ==
    /\ calls[c].op = "clock_out" /\ calls[c].pc = "save"
    /\ logs' = save(logs, calls[c].obj)
    /\ \E img \in ImageOutcomes :
          IF img = "decode_raises"
          THEN /\ calls' = Done(c, "ERROR")
               /\ served' = served
          ELSE /\ \E o \in PusherOutcomes : calls' = Respond(c, o)
               /\ served' = Served(calls[c].student, "outs")
    /\ UNCHANGED <<now, requests, enrollments, attempts, ecalls, collection, vcall,
                   schedules, scall>>

\* --------------------------------------- faculty_views.manual_clock_in
OverrideReason(actor) == "Manually clocked in by"

\* lines 106-139: permission and group checks pass; read the clock
ManualClockIn_Start(c, s, actor) ==
    /\ CanStart(c)
    /\ LaterTimes # {}
    /\ now' \in LaterTimes
    /\ calls' = [calls EXCEPT ![c] =
          [IdleCall EXCEPT !.op = "manual_clock_in", !.pc = "get", !.student = s,
                           !.date = "today", !.actor = actor, !.t = now,
                           !.after_check_in = HasCheckIn(s, "sch1", "today"),
                           !.after_check_out = HasCheckOut(s, "sch1", "today")]]
    /\ UNCHANGED <<logs, requests, enrollments, attempts, ecalls, served, collection, vcall,
                   schedules, scall>>

\* (mutant) the override fields are not written on an existing log
ManualClockIn_Existing_NoFlag(c, row) ==
    IF row.check_in_time # None
    THEN Done(c, "ALREADY_CLOCKED_IN")
    ELSE [calls EXCEPT ![c].pc = "save",
             ![c].obj = CheckIfLate([row EXCEPT !.check_in_time = calls[c].t,
                                        !.status = "PRESENT"], calls[c].t)]

\* lines 156-175 for a log that exists
ManualClockIn_Existing(c, row) ==
    IF row.check_in_time # None
    THEN Done(c, "ALREADY_CLOCKED_IN")
    ELSE [calls EXCEPT ![c].pc = "save",
             ![c].obj = CheckIfLate([row EXCEPT !.check_in_time = calls[c].t,
                                        !.status = "PRESENT",
                                        !.is_manual_override = TRUE,
                                        !.override_reason = OverrideReason(calls[c].actor),
                                        !.override_by = calls[c].actor], calls[c].t)]

\* line 143, the SELECT of get_or_create
ManualClockIn_Get(c) ==
    /\ calls[c].op = "manual_clock_in" /\ calls[c].pc = "get"
    /\ LET rows == KeyRows(logs, calls[c].student, "sch1", calls[c].date)
       IN calls' = IF rows = {} THEN [calls EXCEPT ![c].pc = "create"]
                   ELSE IF Cardinality(rows) > 1 THEN Done(c, "ERROR")
                   ELSE ManualClockIn_Existing(c, CHOOSE r \in rows : TRUE)
    /\ UNCHANGED <<now, logs, requests, enrollments, attempts, ecalls, served, collection, vcall,
                   schedules, scall>>

\* line 143, the INSERT of get_or_create, with lines 169-177 and the commit
ManualClockIn_Create(c) ==
    /\ calls[c].op = "manual_clock_in" /\ calls[c].pc = "create"
    /\ LET s == calls[c].student
           d == calls[c].date
       IN IF UniqueViolation(logs, s, "sch1", d)
          THEN /\ calls' = ManualClockIn_Existing(c,
                               CHOOSE r \in KeyRows(logs, s, "sch1", d) : TRUE)
               /\ logs' = logs
          ELSE LET row == CheckIfLate(
                              [AttendanceLog(NextId(logs), s, "sch1", d) EXCEPT
                                  !.status = "PRESENT",
                                  !.check_in_time = calls[c].t,
                                  !.is_manual_override = TRUE,
                                  !.override_reason = OverrideReason(calls[c].actor),
                                  !.override_by = calls[c].actor],
                              calls[c].t)
               IN /\ logs' = logs \cup {row}
                  /\ \E o \in PusherOutcomes : calls' = Respond(c, o)
    /\ UNCHANGED <<now, requests, enrollments, attempts, ecalls, served, collection, vcall,
                   schedules, scall>>

\* line 177 for an existing log, and the commit
ManualClockIn_Save(c) ==
    /\ calls[c].op = "manual_clock_in" /\ calls[c].pc = "save"
    /\ logs' = save(logs, calls[c].obj)
    /\ \E o \in PusherOutcomes : calls' = Respond(c, o)
    /\ UNCHANGED <<now, requests, enrollments, attempts, ecalls, served, collection, vcall,
                   schedules, scall>>

\* ------------------------------------------- ManualClockInRequestView.post
\* the attributes of a Schedule object: its fields, those of BaseModel and the
\* reverse relation of AttendanceLog.schedule
ScheduleAttributes ==
    {"id", "title", "course_code", "date", "start_time", "end_time",
     "clock_in_opens_at", "clock_in_closes_at", "assigned_group", "faculty", "room",
     "location", "description", "is_active", "recurring", "recurrence_pattern",
     "recurrence_end_date", "days_of_week", "created_at", "updated_at", "is_deleted",
     "deleted_at", "attendance_logs"}

\* lines 359-474: the student and the schedule exist; line 398 reads
\* schedule.groups, which raises AttributeError when Schedule has no such
\* attribute (a 500 response); else the "Already clocked in" check, the
\* notification to the faculty (an exception of the block is a 500, a trigger
\* that returns False only a warning) and the success response.  No statement
\* of the view writes a table.
ManualClockInRequestView_post(c, s, o) ==
    /\ CanStart(c)
    /\ LET started == [IdleCall EXCEPT !.op = "manual_request", !.pc = "done",
                           !.student = s, !.date = "today",
                           !.after_check_in = HasCheckIn(s, "sch1", "today")]
       IN calls' = [calls EXCEPT ![c] =
             IF "groups" \notin ScheduleAttributes
             THEN [started EXCEPT !.result = "ERROR"]
             ELSE IF HasCheckIn(s, "sch1", "today")
             THEN [started EXCEPT !.result = "ALREADY_CLOCKED_IN"]
             ELSE IF Notice(o) = "raised"
             THEN [started EXCEPT !.result = "ERROR", !.notice = Notice(o)]
             ELSE [started EXCEPT !.result = "OK", !.notice = Notice(o)]]
    /\ UNCHANGED <<now, logs, requests, enrollments, attempts, ecalls, served, collection, vcall,
                   schedules, scall>>

\* ------------------------------------------- ManualRequestActionView.post
\* A row of the manual clock-in requests, as the view reads and writes it.
ManualClockInRequest(id, s, sch, d) ==
    [id |-> id, student |-> s, schedule |-> sch, attendance_date |-> d,
     status |-> "pending", reviewed_by |-> "", reviewed_at |-> None]

\* lines 143-149: the decision written by manual_request.save()
Decided(c) ==
    LET rid == calls[c].request_id
    IN {IF r.id = rid
        THEN [r EXCEPT !.status = IF calls[c].action = "approve" THEN "approved"
                                  ELSE "rejected",
                       !.reviewed_by = calls[c].actor,
                       !.reviewed_at = 1]
        ELSE r : r \in requests}

\* (mutant) the approval writes the check-in without the override flag
ApprovedLog_NoFlag(row, actor) ==
    [row EXCEPT !.status = "PRESENT",
                !.check_in_time = start_time,
                !.override_reason = "Manual request approved",
                !.override_by = actor]

\* lines 157-162 and 166-172: the log of an approved request, when it had no check-in
ApprovedLog(row, actor) ==
    [row EXCEPT !.status = "PRESENT",
                !.check_in_time = start_time,
                !.is_manual_override = TRUE,
                !.override_reason = "Manual request approved",
                !.override_by = actor]

\* (mutant) the attendance log is written whatever the action is
RequestAction_Load_AnyAction(c, rid, action, actor) ==
    /\ CanStart(c)
    /\ \E r \in requests :
          /\ r.id = rid
          /\ LET started == [IdleCall EXCEPT !.op = "request_action", !.student = r.student,
                                 !.date = r.attendance_date, !.actor = actor,
                                 !.request_id = rid, !.action = action]
             IN calls' = [calls EXCEPT ![c] =
                   IF r.status # "pending"
                   THEN [started EXCEPT !.pc = "done", !.result = "ALREADY_PROCESSED"]
                   ELSE [started EXCEPT !.pc = "get"]]
    /\ UNCHANGED <<now, logs, requests, enrollments, attempts, ecalls, served, collection, vcall,
                   schedules, scall>>

\* lines 111-141: load the request, permissions pass, "already processed" check
RequestAction_Load(c, rid, action, actor) ==
    /\ CanStart(c)
    /\ \E r \in requests :
          /\ r.id = rid
          /\ LET started == [IdleCall EXCEPT !.op = "request_action", !.student = r.student,
                                 !.date = r.attendance_date, !.actor = actor,
                                 !.request_id = rid, !.action = action]
             IN calls' = [calls EXCEPT ![c] =
                   IF r.status # "pending"
                   THEN [started EXCEPT !.pc = "done", !.result = "ALREADY_PROCESSED"]
                   ELSE [started EXCEPT !.pc = IF action = "approve" THEN "get"
                                               ELSE "commit",
                            !.after_check_out =
                                HasCheckOut(r.student, "sch1", r.attendance_date)]]
    /\ UNCHANGED <<now, logs, requests, enrollments, attempts, ecalls, served, collection, vcall,
                   schedules, scall>>

\* line 153, the SELECT of get_or_create, and line 166
RequestAction_Get(c) ==
    /\ calls[c].op = "request_action" /\ calls[c].pc = "get"
    /\ LET rows == KeyRows(logs, calls[c].student, "sch1", calls[c].date)
       IN calls' = IF rows = {} THEN [calls EXCEPT ![c].pc = "create"]
                   ELSE IF Cardinality(rows) > 1 THEN Done(c, "ERROR")
                   ELSE LET row == CHOOSE r \in rows : TRUE
                        IN [calls EXCEPT ![c].pc = "commit",
                               ![c].obj = IF row.check_in_time = None
                                          THEN ApprovedLog(row, calls[c].actor)
                                          ELSE NoRow]
    /\ UNCHANGED <<now, logs, requests, enrollments, attempts, ecalls, served, collection, vcall,
                   schedules, scall>>

\* line 153, the INSERT of get_or_create, and the commit of lines 143-173
RequestAction_Create(c) ==
    /\ calls[c].op = "request_action" /\ calls[c].pc = "create"
    /\ LET s == calls[c].student
           d == calls[c].date
       IN IF UniqueViolation(logs, s, "sch1", d)
          THEN LET row == CHOOSE r \in KeyRows(logs, s, "sch1", d) : TRUE
               IN logs' = IF row.check_in_time = None
                          THEN save(logs, ApprovedLog(row, calls[c].actor))
                          ELSE logs
          ELSE logs' = logs \cup
                  {ApprovedLog(AttendanceLog(NextId(logs), s, "sch1", d), calls[c].actor)}
    /\ requests' = Decided(c)
    /\ \E o \in PusherOutcomes : calls' = Respond(c, o)
    /\ UNCHANGED <<now, enrollments, attempts, ecalls, served, collection, vcall,
                   schedules, scall>>

\* the commit of lines 143-173 when no log is inserted
RequestAction_Commit(c) ==
    /\ calls[c].op = "request_action" /\ calls[c].pc = "commit"
    /\ requests' = Decided(c)
    /\ logs' = IF calls[c].obj # NoRow THEN save(logs, calls[c].obj) ELSE logs
    /\ \E o \in PusherOutcomes : calls' = Respond(c, o)
    /\ UNCHANGED <<now, enrollments, attempts, ecalls, served, collection, vcall,
                   schedules, scall>>

\* A student's manual clock-in ask becomes a pending request row.
CreateManualRequest(s) ==
    /\ Cardinality(requests) < MaxRequests
    /\ requests' = requests \cup {ManualClockInRequest(NextId(requests), s, "sch1", "today")}
    /\ UNCHANGED <<now, logs, calls, enrollments, attempts, ecalls, served, collection, vcall,
                   schedules, scall>>

\* ----------------------------------------------- reports/admin.py (add view)
\* An administrator records a student as absent or excused: a log without
\* check-in.  The admin form validates uniqueness before it saves.
AdminAddLog(s, st) ==
    /\ ~UniqueViolation(logs, s, "sch1", "today")
    /\ logs' = logs \cup {[AttendanceLog(NextId(logs), s, "sch1", "today") EXCEPT !.status = st]}
    /\ UNCHANGED <<now, requests, calls, enrollments, attempts, ecalls, served, collection, vcall,
                   schedules, scall>>

\* ============================================================ enrollment
ECallIds == 1..MaxEnrollCalls

\* frames extracted from the uploaded media
FramesProcessed == MinFaces + 1

\* the methods class FaceProcessor defines
FaceProcessorMethods ==
    {"extract_frames_from_video", "extract_images_from_zip", "detect_faces",
     "align_and_crop_face", "extract_face_embedding", "process_media_for_enrollment",
     "calculate_average_embedding", "create_thumbnail", "calculate_quality_metrics"}

\* processor.calculate_cosine_similarity(a, b) on a FaceProcessor: an attribute
\* the class does not define raises AttributeError
FaceProcessor_calculate_cosine_similarity(a, b) ==
    IF "calculate_cosine_similarity" \in FaceProcessorMethods
    THEN [raised |-> FALSE, value |-> calculate_cosine_similarity(a, b)]
    ELSE [raised |-> TRUE, value |-> 0]

\* FaceProcessor.calculate_average_embedding of n frames that all show face f:
\* the mean (the division by the norm that follows only rescales it)
RECURSIVE SumEmbeddings(_)
SumEmbeddings(embs) ==
    IF embs = <<>> THEN <<0, 0>>
    ELSE LET rest == SumEmbeddings(Tail(embs))
         IN <<Head(embs)[1] + rest[1], Head(embs)[2] + rest[2]>>

calculate_average_embedding(embs) ==
    LET sum == SumEmbeddings(embs)
    IN <<sum[1] \div Len(embs), sum[2] \div Len(embs)>>

\* FaceProcessor.calculate_quality_metrics, in thousandths; detect_faces reports
\* confidence 0.95 for every face and identical embeddings have consistency 1.0
calculate_quality_metrics(frames, faces) ==
    LET rate == IF frames > 0 THEN (1000 * faces) \div frames ELSE 0
        conf == IF faces > 0 THEN 950 ELSE 0
    IN [average_confidence |-> conf,
        overall_quality |-> (rate * 3 + conf * 4 + 1000 * 3) \div 10]

\* a row of facial_enrollments
FacialEnrollment(id, s, emb, faces) ==
    [id |-> id, student |-> s, embedding |-> emb, is_active |-> TRUE,
     face_confidence |-> calculate_quality_metrics(FramesProcessed, faces).average_confidence,
     embedding_quality |-> calculate_quality_metrics(FramesProcessed, faces).overall_quality,
     num_faces_detected |-> faces]

\* (mutant) objects.create instead of update_or_create, without the unique student
update_or_create_AlwaysInsert(tbl, s, emb, faces) ==
    tbl \cup {FacialEnrollment(NextId(tbl), s, emb, faces)}

\* FacialEnrollment.objects.update_or_create(student=s, defaults=...) followed by
\* set_embedding and save: the student's row is replaced, or a row is inserted
\* (student is a OneToOneField, hence unique)
update_or_create(tbl, s, emb, faces) ==
    IF \E e \in tbl : e.student = s
    THEN {IF e.student = s THEN FacialEnrollment(e.id, s, emb, faces) ELSE e : e \in tbl}
    ELSE tbl \cup {FacialEnrollment(NextId(tbl), s, emb, faces)}

\* a row of enrollment_attempts
EnrollmentAttempt(id, s) ==
    [id |-> id, student |-> s, status |-> "PROCESSING", frames_processed |-> 0,
     faces_detected |-> 0, error_message |-> "", error_count |-> None,
     has_processing_time |-> FALSE]

IdleECall ==
    [pc |-> "idle", student |-> None, face |-> <<0, 0>>, faces_detected |-> 0,
     attempt_id |-> None, result |-> "", duplicate_student |-> None,
     similarity_score |-> None, matched_at_scan |-> FALSE,
     several_at_scan |-> FALSE, best_student |-> None, best_similarity |-> None,
     corrupt |-> FALSE, created |-> FALSE]

CanStartE(c) ==
    /\ ecalls[c].pc = "idle"
    /\ c > 1 => ecalls[c - 1].pc # "idle"

\* (mutant) the attempt is saved without its processing time
FinishAttempt_NoTime(c, st, msg, cnt) ==
    {IF a.id = ecalls[c].attempt_id
     THEN [a EXCEPT !.status = st, !.error_message = msg, !.error_count = cnt,
                    !.frames_processed = FramesProcessed,
                    !.faces_detected = ecalls[c].faces_detected]
     ELSE a : a \in attempts}

\* attempt.save() with the outcome of the call
FinishAttempt(c, st, msg, cnt) ==
    {IF a.id = ecalls[c].attempt_id
     THEN [a EXCEPT !.status = st, !.error_message = msg, !.error_count = cnt,
                    !.frames_processed = FramesProcessed,
                    !.faces_detected = ecalls[c].faces_detected,
                    !.has_processing_time = TRUE]
     ELSE a : a \in attempts}

\* lines 178-185: the attempt saved by the exception handler when the media
\* could not be processed (the counts keep their defaults)
FailAttempt(c) ==
    {IF a.id = ecalls[c].attempt_id
     THEN [a EXCEPT !.status = "FAILED", !.error_message = "processing error",
                    !.has_processing_time = TRUE]
     ELSE a : a \in attempts}

\* (mutant) no minimum number of faces
EnoughFaces_Any(n) == TRUE

\* line 83: if results['faces_detected'] < 5
EnoughFaces(n) == ~(n < MinFaces)

\* the active enrollments of other students, newest first (Meta.ordering)
OtherActive(s) == {e \in enrollments : e.is_active /\ e.student # s}

\* lines 106-135: the enrollments the loop reports as duplicates; a comparison
\* that raises is logged and skipped
DuplicatesFound(avg, s) ==
    {e \in OtherActive(s) :
        LET r == FaceProcessor_calculate_cosine_similarity(avg, e.embedding)
        IN ~r.raised /\ r.value >= duplicate_threshold}

\* StudentEnrollmentView.post / SelfEnrollmentView.post, lines 65-69: the
\* input is valid, the attempt is created
Enroll_Begin(c, s, f, n, corrupt) ==
    /\ CanStartE(c)
    /\ attempts' = attempts \cup {EnrollmentAttempt(NextId(attempts), s)}
    /\ ecalls' = [ecalls EXCEPT ![c] =
          [IdleECall EXCEPT !.pc = "process", !.student = s, !.face = f,
                            !.faces_detected = n, !.attempt_id = NextId(attempts),
                            !.corrupt = corrupt]]
    /\ UNCHANGED <<now, logs, requests, calls, enrollments, served, collection, vcall,
                   schedules, scall>>

\* lines 73-135 and 178-194: process the media (an unreadable file raises),
\* require 5 faces, average, scan for duplicates
Enroll_Scan(c) ==
    /\ ecalls[c].pc = "process"
    /\ LET s == ecalls[c].student
           n == ecalls[c].faces_detected
           avg == calculate_average_embedding([i \in 1..n |-> ecalls[c].face])
           dups == DuplicatesFound(avg, s)
           first == CHOOSE e \in dups : \A o \in dups : o.id <= e.id
           matching == {e \in OtherActive(s) :
                          calculate_cosine_similarity(avg, e.embedding) >= duplicate_threshold}
           matched == matching # {}
           best == CHOOSE e \in matching : \A o \in matching :
                       calculate_cosine_similarity(avg, o.embedding)
                           <= calculate_cosine_similarity(avg, e.embedding)
           seen == [ecalls[c] EXCEPT
                       !.matched_at_scan = matched,
                       !.several_at_scan = Cardinality(matching) > 1,
                       !.best_student = IF matched THEN best.student ELSE None,
                       !.best_similarity =
                           IF matched THEN calculate_cosine_similarity(avg, best.embedding)
                           ELSE None]
       IN IF ecalls[c].corrupt
          THEN /\ attempts' = FailAttempt(c)
               /\ ecalls' = [ecalls EXCEPT ![c].pc = "done", ![c].result = "ERROR"]
          ELSE IF ~EnoughFaces(n)
          THEN /\ attempts' = FinishAttempt(c, "FAILED", "Insufficient faces detected", n)
               /\ ecalls' = [ecalls EXCEPT ![c].pc = "done",
                                           ![c].result = "INSUFFICIENT_FACES"]
          ELSE IF dups # {}
          THEN /\ attempts' = FinishAttempt(c, "FAILED", "already enrolled", None)
               /\ ecalls' = [ecalls EXCEPT ![c] =
                     [seen EXCEPT !.pc = "done",
                         !.result = "DUPLICATE_FACE_ENROLLMENT",
                         !.duplicate_student = first.student,
                         !.similarity_score =
                             calculate_cosine_similarity(avg, first.embedding)]]
          ELSE /\ attempts' = attempts
               /\ ecalls' = [ecalls EXCEPT ![c] = [seen EXCEPT !.pc = "lock"]]
    /\ UNCHANGED <<now, logs, requests, calls, enrollments, served, collection, vcall,
                   schedules, scall>>

\* (mutant) no row lock and no wait on the unique index
RowLocked_Never(s) == FALSE

\* An open transaction holds the row of student s (SELECT ... FOR UPDATE of
\* update_or_create) or the entry of s in the unique index of the OneToOneField
\* (its INSERT), until it commits.
RowLocked(s) == \E d \in ECallIds : ecalls[d].pc = "persist" /\ ecalls[d].student = s

\* lines 144-145: the transaction begins and update_or_create selects the
\* student's row for update, or inserts it when there is none; it waits while
\* another transaction holds the row or the index entry
Enroll_Lock(c) ==
    /\ ecalls[c].pc = "lock"
    /\ ~RowLocked(ecalls[c].student)
    /\ ecalls' = [ecalls EXCEPT ![c].pc = "persist",
                      ![c].created = ~\E e \in enrollments : e.student = ecalls[c].student]
    /\ UNCHANGED <<now, logs, requests, calls, enrollments, attempts, served, collection, vcall,
                   schedules, scall>>

\* lines 146-163: the saves of the enrollment and of the attempt, and the
\* commit that makes them visible; an INSERT that meets a committed row of the
\* student raises IntegrityError, the transaction rolls back and the handler
\* of lines 178-194 saves the attempt as failed
Enroll_Persist(c) ==
    /\ ecalls[c].pc = "persist"
    /\ IF ecalls[c].created /\ \E e \in enrollments : e.student = ecalls[c].student
       THEN /\ enrollments' = enrollments
            /\ attempts' = FailAttempt(c)
            /\ ecalls' = [ecalls EXCEPT ![c].pc = "done", ![c].result = "INTEGRITY_ERROR"]
       ELSE /\ LET n == ecalls[c].faces_detected
                   avg == calculate_average_embedding([i \in 1..n |-> ecalls[c].face])
               IN enrollments' = update_or_create(enrollments, ecalls[c].student, avg, n)
            /\ attempts' = FinishAttempt(c, "SUCCESS", "", None)
            /\ ecalls' = [ecalls EXCEPT ![c].pc = "done", ![c].result = "OK"]
    /\ UNCHANGED <<now, logs, requests, calls, served, collection, vcall,
                   schedules, scall>>

\* StudentEnrollmentView.delete; the DELETE waits for a transaction that holds
\* the row
Enroll_Delete(s) ==
    /\ \E e \in enrollments : e.student = s
    /\ ~RowLocked(s)
    /\ enrollments' = {e \in enrollments : e.student # s}
    /\ UNCHANGED <<now, logs, requests, calls, attempts, ecalls, served, collection, vcall,
                   schedules, scall>>

\* FacialEnrollmentAdmin: an administrator clears is_active in the change
\* form; the UPDATE waits for a transaction that holds the row
FacialEnrollmentAdmin_deactivate(s) ==
    /\ \E e \in enrollments : e.student = s /\ e.is_active
    /\ ~RowLocked(s)
    /\ enrollments' = {IF e.student = s THEN [e EXCEPT !.is_active = FALSE] ELSE e :
                          e \in enrollments}
    /\ UNCHANGED <<now, logs, requests, calls, attempts, ecalls, served, collection, vcall,
                   schedules, scall>>

\* ================================================= verification providers
\* AWS_REKOGNITION_SIMILARITY_THRESHOLD, default 80.0 (percent)
aws_similarity_threshold == 80
\* FACE_VERIFICATION_THRESHOLD, default 0.6, times 100
legacy_threshold == 60
\* verify_face: search_faces_by_image(image_data, max_faces=5)
SearchMaxFaces == 5

\* Student.student_id, a string: students 1, 2 and 3 have the ids "1", "2", "12"
student_id(s) == IF s = 3 THEN <<"1", "2">> ELSE <<(<<"1", "2", "3", "4", "5">>)[s]>>

\* f"student_{student_id}"
StudentTag(sid) == <<"student_">> \o sid

\* int(time.time()) when the face was indexed, as text
IndexedAt == <<"1", "7">>

\* external_image_id = f"student_{student_id}_{int(time.time())}"
ExternalImageId(sid) == StudentTag(sid) \o <<"_">> \o IndexedAt

\* Python's  needle in hay  on strings
Contains(hay, needle) ==
    \E i \in 0..(Len(hay) - Len(needle)) : SubSeq(hay, i + 1, i + Len(needle)) = needle

\* a face of the collection, as index_face records it
IndexedFace(id, s, f) ==
    [face_id |-> id, external_image_id |-> ExternalImageId(student_id(s)), face |-> f]

\* AWSRekognitionService.search_faces_by_image: Rekognition searches with the
\* largest face of the image and raises when the image shows no face or the
\* service fails; it returns the max_faces best faces of the collection whose
\* similarity is at least FaceMatchThreshold
search_faces_by_image(snap, max_faces) ==
    IF snap.fault
    THEN [raised |-> TRUE, error |-> "error", matches |-> {}]
    ELSE IF Len(snap.faces) = 0
    THEN [raised |-> TRUE, error |-> "There are no faces in the image", matches |-> {}]
    ELSE LET all == {[face_id |-> x.face_id, external_image_id |-> x.external_image_id,
                      similarity |-> calculate_cosine_similarity(snap.faces[1], x.face)]
                     : x \in collection}
             hits == {m \in all : m.similarity >= aws_similarity_threshold}
             Better(o, m) == \/ o.similarity > m.similarity
                             \/ o.similarity = m.similarity /\ o.face_id < m.face_id
         IN [raised |-> FALSE, error |-> "",
             matches |-> {m \in hits :
                            Cardinality({o \in hits : Better(o, m)}) < max_faces}]

\* AWSRekognitionService.verify_face (wrapped unchanged by _verify_aws_face)
AWSRekognitionService_verify_face(snap, sid) ==
    LET found == search_faces_by_image(snap, SearchMaxFaces)
        student_matches == {m \in found.matches :
                               Contains(m.external_image_id, StudentTag(sid))}
        best_match == CHOOSE m \in student_matches :
                          \A o \in student_matches : o.similarity <= m.similarity
    IN IF found.raised THEN VerifyResult(FALSE, 0, found.error)
       ELSE IF student_matches # {} THEN VerifyResult(TRUE, best_match.similarity, "matched")
       ELSE VerifyResult(FALSE, 0, "no match")

\* FaceProcessor.extract_face_embedding on a whole image: the first encoding
\* face_recognition finds, or None (here <<>>)
extract_face_embedding(snap) ==
    IF Len(snap.faces) = 0 \/ ~snap.encodable THEN <<>> ELSE snap.faces[1]

\* AWSFaceProcessor._verify_legacy_face
verify_legacy_face(snap, enrollment) ==
    IF snap.fault THEN VerifyResult(FALSE, 0, "Legacy verification failed")
    ELSE LET current_embedding == extract_face_embedding(snap)
             compared == FaceProcessor_calculate_cosine_similarity(
                             current_embedding, enrollment.embedding)
         IN IF current_embedding = <<>>
            THEN VerifyResult(FALSE, 0, "No face detected in verification image")
            ELSE IF compared.raised
            THEN VerifyResult(FALSE, 0, "Legacy verification failed")
            ELSE VerifyResult(compared.value >= legacy_threshold, compared.value, "compared")

\* the fields class FacialEnrollment declares
FacialEnrollmentFields ==
    {"id", "student", "embedding", "thumbnail", "face_confidence", "embedding_quality",
     "num_faces_detected", "enrollment_date", "last_updated", "is_active"}

\* AWSFaceProcessor.verify_face: reading enrollment.provider raises
\* AttributeError when the model has no such field
AWSFaceProcessor_verify_face(snap, s) ==
    IF ActiveEnrollment(s) = {}
    THEN [raised |-> FALSE, result |-> VerifyResult(FALSE, 0, "Student not enrolled")]
    ELSE IF "provider" \notin FacialEnrollmentFields
    THEN [raised |-> TRUE, result |-> VerifyResult(FALSE, 0, "")]
    ELSE LET enrollment == CHOOSE e \in ActiveEnrollment(s) : TRUE
         IN [raised |-> FALSE,
             result |-> IF enrollment.provider = "AWS_REKOGNITION"
                           /\ enrollment.aws_face_id # None
                        THEN AWSRekognitionService_verify_face(snap, student_id(s))
                        ELSE IF enrollment.provider = "DLIB"
                        THEN verify_legacy_face(snap, enrollment)
                        ELSE VerifyResult(FALSE, 0, "Invalid enrollment data")]

Applied(path, s, snap, raised, http, result) ==
    [path |-> path, student |-> s, snap |-> snap, raised |-> raised, http |-> http,
     result |-> result]

\* FaceVerificationService.verify_face(snapshot, student.id)
Apply_verify_face(s, snap) ==
    /\ vcall' = Applied("local", s, snap, FALSE, 0, verify_face(snap, s))
    /\ UNCHANGED <<now, logs, requests, calls, served, enrollments, attempts, ecalls,
                   collection, schedules, scall>>

\* aws_rekognition_service.verify_face(image, student.student_id)
Apply_AWSRekognitionService_verify_face(s, snap) ==
    /\ vcall' = Applied("remote", s, snap, FALSE, 0,
                        AWSRekognitionService_verify_face(snap, student_id(s)))
    /\ UNCHANGED <<now, logs, requests, calls, served, enrollments, attempts, ecalls,
                   collection, schedules, scall>>

\* aws_face_processor._verify_legacy_face(image, enrollment)
Apply_verify_legacy_face(s, snap) ==
    /\ ActiveEnrollment(s) # {}
    /\ vcall' = Applied("legacy", s, snap, FALSE, 0,
                        verify_legacy_face(snap, CHOOSE e \in ActiveEnrollment(s) : TRUE))
    /\ UNCHANGED <<now, logs, requests, calls, served, enrollments, attempts, ecalls,
                   collection, schedules, scall>>

\* FacialVerificationView.post, lines 50-126
FacialVerificationView_post(s, snap) ==
    /\ LET vr == AWSFaceProcessor_verify_face(snap, s)
       IN vcall' = IF ActiveEnrollment(s) = {}
                   THEN Applied("view", s, snap, FALSE, 404, vr.result)
                   ELSE IF vr.raised
                   THEN Applied("view", s, snap, TRUE, 500, vr.result)
                   ELSE Applied("view", s, snap, FALSE, 200, vr.result)
    /\ UNCHANGED <<now, logs, requests, calls, served, enrollments, attempts, ecalls,
                   collection, schedules, scall>>

\* ======================================================== specifications
\* =============================================================== schedules
\* timedelta(hours=1), in seconds
Hour == 3600
\* timedelta(minutes=15), the default distance of the window from the start
DefaultWindow == 900
\* seconds of a day: datetime.time wraps at midnight
Day == 86400

\* the times of day a create request carries
ScheduleTimes == {28799, 28800, 32400, 36000, 36001}

\* the payload of POST /api/schedules/; None is a window field left out
ScheduleRequest(st, en, op, cl) ==
    [start_time |-> st, end_time |-> en, clock_in_opens_at |-> op,
     clock_in_closes_at |-> cl]

\* ScheduleViewSet._parse_frontend_times: a missing window field defaults to
\* 15 minutes before or after the hour and minute of start_time
parse_frontend_times(d) ==
    LET start_t == d.start_time - (d.start_time % 60)
    IN [d EXCEPT !.clock_in_opens_at =
                     IF @ = None THEN (start_t + Day - DefaultWindow) % Day ELSE @,
                 !.clock_in_closes_at =
                     IF @ = None THEN (start_t + DefaultWindow) % Day ELSE @]

\* the keys of the errors dictionary built from the four times
TimeErrors(st, en, op, cl) ==
    (IF st >= en THEN {"end_time"} ELSE {})
    \cup (IF op > st \/ (st - op) > Hour THEN {"clock_in_opens_at"} ELSE {})
    \cup (IF cl < st \/ op >= cl \/ (cl - st) > Hour THEN {"clock_in_closes_at"} ELSE {})

\* (mutant) the serializer does not bound the window by one hour
ScheduleSerializer_validate_NoHourBound(d) ==
    (IF d.start_time >= d.end_time THEN {"end_time"} ELSE {})
    \cup (IF d.clock_in_opens_at > d.start_time THEN {"clock_in_opens_at"} ELSE {})
    \cup (IF d.clock_in_closes_at < d.start_time
              \/ d.clock_in_opens_at >= d.clock_in_closes_at
          THEN {"clock_in_closes_at"} ELSE {})

\* ScheduleSerializer.validate: the time rules, then the conditional
\* uniqueness check on (assigned_group, date, start_time)
ScheduleSerializer_validate(d) ==
    LET errors == TimeErrors(d.start_time, d.end_time, d.clock_in_opens_at,
                             d.clock_in_closes_at)
    IN IF errors # {} THEN errors
       ELSE IF \E r \in schedules : r.start_time = d.start_time THEN {"start_time"}
       ELSE {}

\* Schedule.clean, run by full_clean: TRUE when it raises no ValidationError
Schedule_clean(r) ==
    TimeErrors(r.start_time, r.end_time, r.clock_in_opens_at, r.clock_in_closes_at) = {}

\* a row of schedules
Schedule(id, d) ==
    [id |-> id, start_time |-> d.start_time, end_time |-> d.end_time,
     clock_in_opens_at |-> d.clock_in_opens_at,
     clock_in_closes_at |-> d.clock_in_closes_at]

\* the response to a create request with cleaned data d
SResponse(d, code, errors) ==
    [start_time |-> d.start_time, end_time |-> d.end_time,
     clock_in_opens_at |-> d.clock_in_opens_at,
     clock_in_closes_at |-> d.clock_in_closes_at, status |-> code, errors |-> errors]

\* ScheduleViewSet.create: clean the payload, serializer.is_valid (400 on
\* errors), then ScheduleSerializer.create: full_clean and save; a Django
\* ValidationError of full_clean is not handled and becomes a 500
ScheduleViewSet_create(req) ==
    /\ Cardinality(schedules) < MaxSchedules
    /\ LET d == parse_frontend_times(req)
           errors == ScheduleSerializer_validate(d)
           row == Schedule(NextId(schedules), d)
       IN IF errors # {}
          THEN /\ scall' = SResponse(d, 400, errors)
               /\ schedules' = schedules
          ELSE IF ~Schedule_clean(row)
          THEN /\ scall' = SResponse(d, 500, {})
               /\ schedules' = schedules
          ELSE /\ scall' = SResponse(d, 201, {})
               /\ schedules' = schedules \cup {row}
    /\ UNCHANGED <<now, logs, requests, calls, served, enrollments, attempts, ecalls,
                   collection, vcall>>

\* the attendance endpoints; every student is enrolled with their own face
Enrolled == {FacialEnrollment(s, s, FaceOf(s), MinFaces) : s \in Students}

Init ==
    /\ now = FirstTime
    /\ logs = {}
    /\ requests = {}
    /\ calls = [c \in CallIds |-> IdleCall]
    /\ served = [s \in Attendees |-> [ins |-> 0, outs |-> 0]]
    /\ enrollments = Enrolled
    /\ attempts = {}
    /\ ecalls = [c \in ECallIds |-> IdleECall]
    /\ collection = {}
    /\ vcall = IdleVCall
    /\ schedules = {}
    /\ scall = IdleSCall

\* the snapshots sent to clock_in and clock_out: the student's face, another
\* face, and a snapshot on which the face library raises
ClockSnapshots ==
    {OneFace(FaceA), OneFace(FaceB), Snapshot(<<FaceA>>, TRUE, TRUE, TRUE)}

Next ==
    \/ \E c \in CallIds, s \in Attendees, snap \in ClockSnapshots : ClockIn_Verify(c, s, snap)
    \/ \E c \in CallIds : ClockIn_Get(c)
    \/ \E c \in CallIds : ClockIn_Create(c)
    \/ \E c \in CallIds : ClockIn_Save(c)
    \/ \E c \in CallIds, s \in Attendees, snap \in ClockSnapshots : ClockOut_Verify(c, s, snap)
    \/ \E c \in CallIds : ClockOut_Get(c)
    \/ \E c \in CallIds : ClockOut_Save(c)
    \/ \E c \in CallIds, s \in Attendees, a \in Faculty : ManualClockIn_Start(c, s, a)
    \/ \E c \in CallIds : ManualClockIn_Get(c)
    \/ \E c \in CallIds : ManualClockIn_Create(c)
    \/ \E c \in CallIds : ManualClockIn_Save(c)
    \/ \E c \in CallIds, r \in 1..MaxRequests, act \in {"approve", "reject"}, a \in Faculty :
          RequestAction_Load(c, r, act, a)
    \/ \E c \in CallIds : RequestAction_Get(c)
    \/ \E c \in CallIds : RequestAction_Create(c)
    \/ \E c \in CallIds : RequestAction_Commit(c)
    \/ \E s \in Attendees : CreateManualRequest(s)
    \/ \E s \in Attendees, st \in {"ABSENT", "EXCUSED"} : AdminAddLog(s, st)

Spec == Init /\ [][Next]_vars

\* the uploads: the number of usable faces in the media, or a file that
\* cannot be read
MediaInputs ==
    {<<n, FALSE>> : n \in {MinFaces - 1, MinFaces, MinFaces + 1}} \cup {<<0, TRUE>>}

\* the enrollment endpoints, from an empty enrollment table
EnrollInit ==
    /\ now = FirstTime
    /\ logs = {}
    /\ requests = {}
    /\ calls = [c \in CallIds |-> IdleCall]
    /\ served = [s \in Attendees |-> [ins |-> 0, outs |-> 0]]
    /\ enrollments = {}
    /\ attempts = {}
    /\ ecalls = [c \in ECallIds |-> IdleECall]
    /\ collection = {}
    /\ vcall = IdleVCall
    /\ schedules = {}
    /\ scall = IdleSCall

EnrollNext ==
    \/ \E c \in ECallIds, s \in Students, f \in Faces, m \in MediaInputs :
          Enroll_Begin(c, s, f, m[1], m[2])
    \/ \E c \in ECallIds : Enroll_Scan(c)
    \/ \E c \in ECallIds : Enroll_Lock(c)
    \/ \E c \in ECallIds : Enroll_Persist(c)
    \/ \E s \in Students : Enroll_Delete(s)

EnrollSpec == EnrollInit /\ [][EnrollNext]_vars

\* the enrollment endpoints on a table in which earlier calls have enrolled
\* students 2 and 3, in either order, with two faces that are less than
\* duplicate_threshold similar to each other
ScanInit ==
    /\ now = FirstTime
    /\ logs = {}
    /\ requests = {}
    /\ calls = [c \in CallIds |-> IdleCall]
    /\ served = [s \in Attendees |-> [ins |-> 0, outs |-> 0]]
    /\ \E f \in {<<FaceNearA, FaceNearA2>>, <<FaceNearA2, FaceNearA>>} :
          enrollments = {FacialEnrollment(1, 2, f[1], MinFaces),
                         FacialEnrollment(2, 3, f[2], MinFaces)}
    /\ attempts = {}
    /\ ecalls = [c \in ECallIds |-> IdleECall]
    /\ collection = {}
    /\ vcall = IdleVCall
    /\ schedules = {}
    /\ scall = IdleSCall

ScanSpec == ScanInit /\ [][EnrollNext]_vars

\* the verification functions applied to bounded inputs: every student is
\* enrolled with their own face, and the collection holds the indexed faces of
\* any of the students
VerifyFaces == {FaceA, FaceNearA, FaceAtRemote, FaceAtVerify, FaceB}

\* good snapshots of one face, of no face and of two faces, and snapshots of
\* one face whose crop is empty, that has no encoding, or whose processing raises
VerifySnapshots ==
    {OneFace(f) : f \in VerifyFaces}
        \cup {Snapshot(fs, TRUE, TRUE, FALSE) : fs \in {<<>>, <<FaceA, FaceB>>, <<FaceB, FaceA>>}}
        \cup {Snapshot(<<FaceA>>, FALSE, TRUE, FALSE), Snapshot(<<FaceA>>, TRUE, FALSE, FALSE),
              Snapshot(<<FaceA>>, TRUE, TRUE, TRUE)}

VerifyInit ==
    /\ now = FirstTime
    /\ logs = {}
    /\ requests = {}
    /\ calls = [c \in CallIds |-> IdleCall]
    /\ served = [s \in Attendees |-> [ins |-> 0, outs |-> 0]]
    /\ enrollments = Enrolled
    /\ attempts = {}
    /\ ecalls = [c \in ECallIds |-> IdleECall]
    /\ collection \in SUBSET {IndexedFace(s, s, FaceOf(s)) : s \in Students}
    /\ vcall = IdleVCall
    /\ schedules = {}
    /\ scall = IdleSCall

VerifyNext ==
    \/ \E s \in Students, snap \in VerifySnapshots : Apply_verify_face(s, snap)
    \/ \E s \in Students, snap \in VerifySnapshots :
          Apply_AWSRekognitionService_verify_face(s, snap)
    \/ \E s \in Students, snap \in VerifySnapshots : Apply_verify_legacy_face(s, snap)
    \/ \E s \in Students, snap \in VerifySnapshots : FacialVerificationView_post(s, snap)

VerifySpec == VerifyInit /\ [][VerifyNext]_vars

\* clock_in and clock_out of the attendees while their enrollment is deleted,
\* deactivated and stored again
GateNext ==
    \/ \E c \in CallIds, s \in Attendees : ClockIn_Verify(c, s, OneFace(FaceOf(s)))
    \/ \E c \in CallIds : ClockIn_Get(c)
    \/ \E c \in CallIds : ClockIn_Create(c)
    \/ \E c \in CallIds : ClockIn_Save(c)
    \/ \E c \in CallIds, s \in Attendees : ClockOut_Verify(c, s, OneFace(FaceOf(s)))
    \/ \E c \in CallIds : ClockOut_Get(c)
    \/ \E c \in CallIds : ClockOut_Save(c)
    \/ \E s \in Attendees : AdminAddLog(s, "ABSENT")
    \/ \E s \in Attendees : Enroll_Delete(s)
    \/ \E s \in Attendees : FacialEnrollmentAdmin_deactivate(s)
    \/ \E c \in ECallIds, s \in Attendees : Enroll_Begin(c, s, FaceOf(s), MinFaces, FALSE)
    \/ \E c \in ECallIds : Enroll_Scan(c)
    \/ \E c \in ECallIds : Enroll_Lock(c)
    \/ \E c \in ECallIds : Enroll_Persist(c)

GateSpec == Init /\ [][GateNext]_vars

\* the student's manual clock-in ask, next to clock_in and the admin
RequestNext ==
    \/ \E c \in CallIds, s \in Attendees, snap \in ClockSnapshots : ClockIn_Verify(c, s, snap)
    \/ \E c \in CallIds : ClockIn_Get(c)
    \/ \E c \in CallIds : ClockIn_Create(c)
    \/ \E c \in CallIds : ClockIn_Save(c)
    \/ \E s \in Attendees, st \in {"ABSENT", "EXCUSED"} : AdminAddLog(s, st)
    \/ \E c \in CallIds, s \in Attendees, o \in PusherOutcomes :
          ManualClockInRequestView_post(c, s, o)

RequestSpec == Init /\ [][RequestNext]_vars

\* the schedule endpoint, from an empty table
ScheduleInit == Init

ScheduleNext ==
    \E st, en \in ScheduleTimes, op, cl \in ScheduleTimes \cup {None} :
        ScheduleViewSet_create(ScheduleRequest(st, en, op, cl))

ScheduleSpec == ScheduleInit /\ [][ScheduleNext]_vars

\* ================================================================ claims
SameKey(r1, r2) ==
    r1.student = r2.student /\ r1.schedule = r2.schedule /\ r1.date = r2.date

\* call c takes the step
Steps(c) == calls'[c] # calls[c]

\* C1: of the clock_in calls with a verified face for one (student, schedule,
\* date), at most one succeeds, whatever the interleaving and whether or not a
\* log without check_in_time existed; once one has succeeded exactly one log of
\* the key exists, with status PRESENT or LATE.
C1_OneClockInSucceeds ==
    \A s \in Attendees :
        /\ served[s].ins <= 1
        /\ served[s].ins = 1 =>
              \E r \in logs : /\ KeyRows(logs, s, "sch1", "today") = {r}
                              /\ r.status \in {"PRESENT", "LATE"}

\* C2: a verified clock_in or a manual_clock_in that arrives when the log of
\* its key has check_in_time set is rejected as already clocked in, and no step
\* of it changes any log (check_in_time, status and confidence keep their values).
C2_LaterClockInRejected ==
    [][\A c \in CallIds :
          (/\ calls[c].op \in {"clock_in", "manual_clock_in"}
           /\ calls[c].after_check_in
           /\ calls[c].pc # "done"
           /\ Steps(c))
          => /\ logs' = logs
             /\ calls'[c].pc = "done"
             /\ calls'[c].result = "ALREADY_CLOCKED_IN"]_vars

C2_Witness ==
    \E c \in CallIds :
        /\ calls[c].op \in {"clock_in", "manual_clock_in"}
        /\ calls[c].after_check_in
        /\ calls[c].pc = "done"
        /\ calls[c].result = "ALREADY_CLOCKED_IN"

\* C3: a clock_out whose lookup finds no log of its key, or a log without
\* check_in_time, ends with the rejection "no record" / "cannot clock out
\* without clocking in first", and the logs are left as they were.
C3_ClockOutNeedsCheckIn ==
    [][\A c \in CallIds :
          (/\ calls[c].op = "clock_out"
           /\ calls[c].pc = "get"
           /\ Steps(c)
           /\ ~HasCheckIn(calls[c].student, "sch1", calls[c].date))
          => /\ logs' = logs
             /\ calls'[c].pc = "done"
             /\ calls'[c].result \in {"NO_RECORD", "NO_CHECK_IN"}]_vars

C3_Witness ==
    \E c \in CallIds :
        /\ calls[c].op = "clock_out"
        /\ calls[c].pc = "done"
        /\ calls[c].result = "NO_CHECK_IN"
        /\ \E r \in logs : r.check_in_time = None

\* C4: check_out_time is written at most once per (student, schedule, date):
\* at most one clock_out of a key succeeds, also when two of them interleave.
C4_CheckOutWrittenOnce == \A s \in Attendees : served[s].outs <= 1

\* C5: every log with check_out_time set has check_in_time set and
\* check_out_time strictly greater than check_in_time.
C5_CheckOutAfterCheckIn ==
    \A r \in logs :
        r.check_out_time # None =>
            r.check_in_time # None /\ r.check_out_time > r.check_in_time

\* C6: with the 600 s grace period a check-in at or before start_time + 600 s
\* is PRESENT (in particular at exactly + 600 s) and a later one (from + 601 s)
\* is LATE.
C6_LateBoundary ==
    \A r \in logs :
        r.check_in_time # None =>
            /\ r.check_in_time <= start_time + 600 => r.status = "PRESENT"
            /\ r.check_in_time >= start_time + 601 => r.status = "LATE"

C6_Witness ==
    \E r \in logs : r.check_in_time = start_time + 600 /\ r.status = "PRESENT"

\* C7: there is at most one log per (student, schedule, date) in every state.
C7_UniqueLog == \A r1, r2 \in logs : SameKey(r1, r2) => r1 = r2

\* an INSERT is attempted for a key that has got a row in the meantime
C7_Witness ==
    \E c \in CallIds :
        /\ calls[c].pc = "create"
        /\ KeyRows(logs, calls[c].student, "sch1", calls[c].date) # {}

\* C8: an enroll call whose averaged embedding is at least duplicate_threshold
\* similar to the active enrollment of another student ends in the conflict
\* DUPLICATE_FACE_ENROLLMENT naming that student, and stores nothing; a call
\* with at least 5 faces and no such match succeeds.
C8_DuplicateRejected ==
    \A c \in ECallIds :
        /\ ecalls[c].matched_at_scan =>
              /\ ecalls[c].result = "DUPLICATE_FACE_ENROLLMENT"
              /\ ecalls[c].duplicate_student # ecalls[c].student
        /\ (ecalls[c].pc = "done" /\ ecalls[c].faces_detected >= MinFaces
               /\ ~ecalls[c].matched_at_scan) => ecalls[c].result = "OK"

\* C9: no two active enrollments of different students hold embeddings whose
\* cosine similarity is at least duplicate_threshold.
C9_NoDuplicateFaces ==
    \A e1, e2 \in enrollments :
        (e1.student # e2.student /\ e1.is_active /\ e2.is_active)
            => calculate_cosine_similarity(e1.embedding, e2.embedding) < duplicate_threshold

\* C12: a request that has left 'pending' is never written again: its status,
\* reviewed_by and reviewed_at keep their values, also when an approve and a
\* reject of the same pending request run concurrently (exactly one of the two
\* takes effect).
C12_DecidedOnce ==
    [][\A r \in requests : r.status # "pending" => r \in requests']_vars

\* the step of call c commits the approval of its request
Approves(c) ==
    /\ calls[c].op = "request_action" /\ calls[c].action = "approve"
    /\ calls[c].pc \in {"create", "commit"}
    /\ calls'[c].pc = "done" /\ calls'[c].result = "OK"

IsOverride(r) ==
    r.is_manual_override /\ r.override_reason # "" /\ r.override_by # ""

\* C13 as stated: when a request is approved, a log of (student, schedule,
\* attendance_date) exists with check_in_time set and marked as a manual
\* override, whether or not a log of that key existed before.
C13_ApprovalMakesOverride ==
    [][\A c \in CallIds : Approves(c) =>
          \E r \in KeyRows(logs', calls[c].student, "sch1", calls[c].date) :
              r.check_in_time # None /\ IsOverride(r)]_vars

\* C13 amended: when a request is approved, a log of the key exists with
\* check_in_time set; it is marked as a manual override of the approver, with
\* check_in_time = start_time, unless the key's log had check_in_time set
\* already, and then that log is left exactly as it was.
C13_ApprovalMakesOverrideUnlessCheckedIn ==
    [][\A c \in CallIds : Approves(c) =>
          LET s == calls[c].student
              d == calls[c].date
          IN \E r \in KeyRows(logs', s, "sch1", d) :
                /\ r.check_in_time # None
                /\ IF HasCheckIn(s, "sch1", d) /\ calls[c].obj = NoRow
                   THEN logs' = logs
                   ELSE /\ IsOverride(r)
                        /\ r.override_by = calls[c].actor
                        /\ r.check_in_time = start_time]_vars

\* a request is approved and the log of its key is the override the approval wrote
C13_Witness ==
    \E q \in requests, r \in logs :
        /\ q.status = "approved"
        /\ r.student = q.student /\ r.date = q.attendance_date
        /\ r.override_reason = "Manual request approved"
        /\ r.check_in_time = start_time

\* C14: no step of a reject action creates, changes or removes an attendance log.
C14_RejectLeavesLogs ==
    [][\A c \in CallIds :
          (calls[c].op = "request_action" /\ calls[c].action = "reject" /\ Steps(c))
              => logs' = logs]_vars

\* a reject has taken effect while a log of the student exists
C14_Witness ==
    \E q \in requests, c \in CallIds :
        /\ q.status = "rejected"
        /\ calls[c].op = "request_action" /\ calls[c].pc = "done" /\ calls[c].result = "OK"
        /\ KeyRows(logs, q.student, "sch1", q.attendance_date) # {}

C11_MaxSimilarityConflict ==
    \A c \in ECallIds :
        (ecalls[c].several_at_scan /\ ecalls[c].pc \in {"lock", "persist", "done"}) =>
            /\ ecalls[c].result = "DUPLICATE_FACE_ENROLLMENT"
            /\ ecalls[c].duplicate_student = ecalls[c].best_student
            /\ ecalls[c].similarity_score = ecalls[c].best_similarity

\* the similarity of a one-face snapshot to what the path holds for the
\* student: the stored embedding, or the face indexed for the student
StoredFace(v) ==
    IF v.path = "remote" THEN FaceOf(v.student)
    ELSE (CHOOSE e \in ActiveEnrollment(v.student) : TRUE).embedding

Threshold(path) ==
    IF path = "remote" THEN aws_similarity_threshold
    ELSE IF path = "legacy" THEN legacy_threshold ELSE similarity_threshold

UsableOneFace(snap) ==
    Len(snap.faces) = 1 /\ snap.crop_ok /\ snap.encodable /\ ~snap.fault

\* C16: for a student with an active enrollment (and, on the remote path, an
\* indexed face) and a snapshot with exactly one usable face, each of the paths
\* local, remote and legacy returns verified = TRUE exactly when the similarity
\* is at least the path's threshold, and returns that similarity as confidence.
C16_VerifiedIffThreshold ==
    (/\ vcall.path \in {"local", "remote", "legacy"}
     /\ UsableOneFace(vcall.snap)
     /\ ActiveEnrollment(vcall.student) # {}
     /\ vcall.path = "remote" =>
            IndexedFace(vcall.student, vcall.student, FaceOf(vcall.student)) \in collection)
    => LET similarity == calculate_cosine_similarity(vcall.snap.faces[1], StoredFace(vcall))
       IN /\ vcall.result.verified <=> similarity >= Threshold(vcall.path)
          /\ vcall.result.confidence = similarity

\* C17: for a snapshot that is processed without error, no path returns
\* verified = TRUE when it shows zero faces or more than one; zero faces gives
\* a 'no face' rejection and more than one a 'multiple faces' rejection.
C17_ZeroOrMultipleFaces ==
    (/\ vcall.path \in {"local", "remote", "legacy"}
     /\ ~vcall.snap.fault
     /\ ActiveEnrollment(vcall.student) # {}
     /\ Len(vcall.snap.faces) # 1)
    => /\ ~vcall.result.verified
       /\ Len(vcall.snap.faces) = 0 =>
              vcall.result.message \in {"No face detected",
                                        "No face detected in verification image",
                                        "There are no faces in the image"}
       /\ Len(vcall.snap.faces) > 1 => vcall.result.message = "Multiple faces detected"

\* C18: a clock_in whose verification raised in the face library is not
\* answered like a face that does not match (401, status ABSENT, verified false).
C18_ProviderErrorNotNegative ==
    \A c \in CallIds :
        (calls[c].op = "clock_in" /\ calls[c].pc = "done"
            /\ calls[c].message = "Verification error")
        => calls[c].result # "NOT_VERIFIED"

\* the attempt call c created
AttemptOf(c) == {a \in attempts : a.id = ecalls[c].attempt_id}

\* C19: every enroll call that has passed validation has exactly one attempt,
\* and when the call has returned the attempt is SUCCESS or FAILED, never
\* PROCESSING, with processing_time set, frames_processed and faces_detected as
\* the processing returned them (the defaults when the processing raised) and,
\* when FAILED, an error message; SUCCESS goes with the result OK only.
C19_AttemptRecorded ==
    /\ Cardinality(attempts) = Cardinality({c \in ECallIds : ecalls[c].pc # "idle"})
    /\ \A c \in ECallIds :
          /\ ecalls[c].pc # "idle" =>
                 \E a \in attempts : AttemptOf(c) = {a} /\ a.student = ecalls[c].student
          /\ ecalls[c].pc = "done" =>
                 \A a \in AttemptOf(c) :
                     /\ a.status = IF ecalls[c].result = "OK" THEN "SUCCESS" ELSE "FAILED"
                     /\ a.has_processing_time
                     /\ a.status = "FAILED" => a.error_message # ""
                     /\ a.frames_processed = IF ecalls[c].corrupt THEN 0 ELSE FramesProcessed
                     /\ a.faces_detected = ecalls[c].faces_detected

\* calls have returned on the success, the insufficient-faces and the exception path
C19_Witness ==
    \E c1, c2 \in ECallIds :
        /\ ecalls[c1].pc = "done" /\ ecalls[c1].result = "OK"
        /\ ecalls[c2].pc = "done" /\ ecalls[c2].result \in {"ERROR", "INSUFFICIENT_FACES"}
        /\ \E a \in AttemptOf(c2) : a.status = "FAILED"

StepsE(c) == ecalls'[c] # ecalls[c]

\* C20: an enroll call with fewer than 5 usable faces ends FAILED with the
\* number of faces detected in its error message, and none of its steps
\* creates or changes an enrollment.
C20_InsufficientFaces ==
    /\ [](\A c \in ECallIds :
             (ecalls[c].pc = "done" /\ ~ecalls[c].corrupt /\ ecalls[c].faces_detected < 5)
             => /\ ecalls[c].result = "INSUFFICIENT_FACES"
                /\ \A a \in AttemptOf(c) :
                       /\ a.status = "FAILED"
                       /\ a.error_message = "Insufficient faces detected"
                       /\ a.error_count = ecalls[c].faces_detected)
    /\ [][\A c \in ECallIds :
             (StepsE(c) /\ ~ecalls'[c].corrupt /\ ecalls'[c].faces_detected < 5)
             => enrollments' = enrollments]_vars

\* a call with 4 faces has failed for a student who keeps an enrollment
C20_Witness ==
    \E c \in ECallIds :
        /\ ecalls[c].pc = "done" /\ ecalls[c].result = "INSUFFICIENT_FACES"
        /\ ecalls[c].faces_detected = MinFaces - 1
        /\ \E e \in enrollments : e.student = ecalls[c].student

\* the step of call c stores its enrollment
Persists(c) == ecalls[c].pc = "persist" /\ ecalls'[c].pc = "done"

\* C10: every student has at most one enrollment row; an enroll of a student
\* who has a row is never refused as a duplicate of that row, and when it
\* succeeds it replaces the embedding and the metrics of the row and adds none.
C10_OneEnrollmentPerStudent ==
    /\ [](\A e1, e2 \in enrollments : e1.student = e2.student => e1 = e2)
    /\ [](\A c \in ECallIds : ecalls[c].result = "DUPLICATE_FACE_ENROLLMENT"
                                  => ecalls[c].duplicate_student # ecalls[c].student)
    /\ [][\A c \in ECallIds :
             (Persists(c) /\ \E e \in enrollments : e.student = ecalls[c].student)
             => /\ Cardinality(enrollments') = Cardinality(enrollments)
                /\ \E e \in enrollments' :
                      /\ e.student = ecalls[c].student
                      /\ e.embedding = ecalls[c].face
                      /\ e.num_faces_detected = ecalls[c].faces_detected
                      /\ e.is_active]_vars

\* two calls have enrolled the same student with the same face, one after the other
C10_Witness ==
    \E c1, c2 \in ECallIds :
        /\ c1 # c2
        /\ ecalls[c1].result = "OK" /\ ecalls[c2].result = "OK"
        /\ ecalls[c1].student = ecalls[c2].student
        /\ ecalls[c1].face = ecalls[c2].face
        /\ ecalls[c1].faces_detected # ecalls[c2].faces_detected
        /\ \E e \in enrollments : e.student = ecalls[c1].student

\* the rows that call c set out to write are in the tables after its step
Written(c) ==
    LET k == calls[c]
        mine == {r \in logs' : r.student = k.student /\ r.schedule = "sch1" /\ r.date = k.date}
    IN CASE k.op \in {"clock_in", "manual_clock_in"} ->
               \E r \in mine : r.check_in_time = k.t
         [] k.op = "clock_out" ->
               \E r \in mine : r.check_out_time = k.t
         [] k.op = "request_action" ->
               /\ \E q \in requests' :
                     /\ q.id = k.request_id
                     /\ q.status = IF k.action = "approve" THEN "approved" ELSE "rejected"
                     /\ q.reviewed_by = k.actor
               /\ k.action = "approve" => \E r \in mine : r.check_in_time # None
         [] OTHER -> FALSE

\* C21: when the notification of a clock_in, clock_out, manual_clock_in or
\* manual-request decision fails (trigger returns false, or the notification
\* block raises), the call still answers with success and the attendance log
\* and request changes it made are committed.
C21_NotificationFailureKeepsWrite ==
    [][\A c \in CallIds :
          (Steps(c) /\ calls'[c].notice \in {"false", "raised"})
          => /\ calls'[c].result = "OK"
             /\ Written(c)]_vars

\* an approval whose notification block raised and a clock-in whose trigger
\* returned false have both answered with success
C21_Witness ==
    \E c1, c2 \in CallIds :
        /\ calls[c1].op = "request_action" /\ calls[c1].notice = "raised"
        /\ calls[c1].result = "OK"
        /\ calls[c2].op = "clock_in" /\ calls[c2].notice = "false"
        /\ calls[c2].result = "OK"
        /\ \E q \in requests : q.status = "approved"
        /\ \E r \in logs : r.check_in_time # None

\* call c ends with an error outcome in this step
EndsInError(c) ==
    /\ Steps(c)
    /\ calls'[c].pc = "done"
    /\ calls'[c].result # "OK"

\* C22: a clock_in or clock_out call that ends with an error outcome (failed
\* verification, already clocked in or out, no check-in, no record, or an
\* exception of the image step) leaves the attendance logs as they were
\* before the step that ends it.
C22_ErrorLeavesLogs ==
    [][\A c \in CallIds :
          (EndsInError(c) /\ calls'[c].op \in {"clock_in", "clock_out"})
          => logs' = logs]_vars

\* the enrollment row that call c stores
RowOf(c, e) ==
    LET n == ecalls[c].faces_detected
        avg == calculate_average_embedding([i \in 1..n |-> ecalls[c].face])
        m == calculate_quality_metrics(FramesProcessed, n)
    IN /\ e.student = ecalls[c].student
       /\ e.embedding = avg
       /\ e.num_faces_detected = n
       /\ e.face_confidence = m.average_confidence
       /\ e.embedding_quality = m.overall_quality

\* C23: enroll calls for one student never hold the student's row at the same
\* time; no enroll call ends with an integrity error; and the student's single
\* enrollment row has embedding, face_confidence, embedding_quality and
\* num_faces_detected that all come from one successful call.
C23_EnrollWritesExclusive ==
    /\ [](\A c1, c2 \in ECallIds :
            (c1 # c2 /\ ecalls[c1].student = ecalls[c2].student)
            => ~(ecalls[c1].pc = "persist" /\ ecalls[c2].pc = "persist"))
    /\ [](\A c \in ECallIds : ecalls[c].result # "INTEGRITY_ERROR")
    /\ [](\A e \in enrollments :
            /\ \A o \in enrollments : o.student = e.student => o = e
            /\ \E c \in ECallIds : ecalls[c].result = "OK" /\ RowOf(c, e))

\* two enroll calls for one student with different media overlapped (the one
\* that began first found the row that the other had inserted) and both
\* succeeded
C23_Witness ==
    /\ ecalls[1].result = "OK" /\ ecalls[2].result = "OK"
    /\ ecalls[1].student = ecalls[2].student
    /\ ecalls[1].faces_detected # ecalls[2].faces_detected
    /\ ecalls[1].face # ecalls[2].face
    /\ ecalls[1].attempt_id < ecalls[2].attempt_id
    /\ ecalls[2].created /\ ~ecalls[1].created
    /\ \E e \in enrollments : RowOf(1, e)

\* the conditions of the claim on the four times of a schedule
ValidTimes(x) ==
    /\ x.start_time < x.end_time
    /\ x.clock_in_opens_at <= x.start_time
    /\ x.start_time <= x.clock_in_closes_at
    /\ x.clock_in_opens_at < x.clock_in_closes_at
    /\ x.start_time - x.clock_in_opens_at <= 3600
    /\ x.clock_in_closes_at - x.start_time <= 3600

\* C24: every stored schedule has start_time < end_time, clock_in_opens_at <=
\* start_time <= clock_in_closes_at, clock_in_opens_at < clock_in_closes_at and
\* a window that opens at most one hour before and closes at most one hour
\* after start_time; a create request that violates one of these is answered
\* with a validation error (400) and stores no schedule.
C24_ScheduleValidation ==
    /\ [](\A r \in schedules : ValidTimes(r))
    /\ [][(scall' # scall /\ ~ValidTimes(scall'))
           => (scall'.status = 400 /\ scall'.errors # {} /\ schedules' = schedules)]_vars

\* a request whose only fault is a window that opens one hour and one second
\* before the start has been rejected
C24_Witness ==
    /\ scall.status = 400
    /\ scall.start_time - scall.clock_in_opens_at = 3601
    /\ scall.start_time < scall.end_time
    /\ scall.clock_in_closes_at - scall.start_time = 3600
    /\ scall.errors = {"clock_in_opens_at"}
    /\ schedules = {}

\* C25: every attendance log with a check-in has status LATE when its
\* check_in_time is more than 600 s after the start of the schedule and PRESENT
\* otherwise, whichever of clock_in, manual_clock_in and manual-request
\* approval stored the check-in and whatever status (ABSENT, EXCUSED) the log
\* held before.
C25_LateIffPastGrace ==
    \A r \in logs :
        r.check_in_time # None =>
            r.status = IF r.check_in_time - start_time > 600 THEN "LATE" ELSE "PRESENT"

\* a clock_in that found a log without check-in, recorded as absent or excused
\* (it answered 200, not 201), has made it LATE
C25_Witness ==
    /\ \E c \in CallIds :
          /\ calls[c].op = "clock_in" /\ calls[c].result = "OK" /\ ~calls[c].created
    /\ \E r \in logs :
          /\ r.status = "LATE" /\ r.check_in_time - start_time > 600
          /\ ~r.is_manual_override

Begins(c) == Free(c) /\ Steps(c) /\ calls'[c].op # "none"

\* C27: while a student has no active facial enrollment (it was deleted or is
\* inactive, and no later enroll has succeeded), verify_face returns verified =
\* false for every snapshot, and every clock_in and clock_out of the student
\* that begins is rejected as not verified and leaves the attendance logs
\* unchanged.
C27_NoEnrollmentFailsFast ==
    /\ [](\A s \in Attendees, snap \in ClockSnapshots :
            ActiveEnrollment(s) = {} => ~verify_face(snap, s).verified)
    /\ [][\A c \in CallIds :
             (/\ Begins(c)
              /\ calls'[c].op \in {"clock_in", "clock_out"}
              /\ ActiveEnrollment(calls'[c].student) = {})
             => /\ calls'[c].pc = "done"
                /\ calls'[c].result = "NOT_VERIFIED"
                /\ calls'[c].message = "no active enrollment"
                /\ logs' = logs]_vars

\* a clock_in was rejected for want of an active enrollment, an enroll call
\* has stored the enrollment again, and a clock_in has succeeded
C27_Witness ==
    /\ \E c1, c2 \in CallIds :
          /\ calls[c1].op = "clock_in" /\ calls[c1].result = "NOT_VERIFIED"
          /\ calls[c1].message = "no active enrollment"
          /\ calls[c2].op = "clock_in" /\ calls[c2].result = "OK"
    /\ \E d \in ECallIds : ecalls[d].result = "OK" /\ ~ecalls[d].created
    /\ \E e \in enrollments : e.student \in Attendees /\ e.is_active
    /\ \E r \in logs : r.check_in_time # None

\* C28: the remote verification of student A returns verified = true only when
\* the collection holds a face indexed for A that matches the snapshot; a
\* match indexed for another student B never verifies A, also when the
\* student_id of A is a prefix of that of B.
C28_RemoteMatchIsOwn ==
    (vcall.path = "remote" /\ vcall.result.verified) =>
        \E x \in collection :
            /\ x.external_image_id = ExternalImageId(student_id(vcall.student))
            /\ Len(vcall.snap.faces) > 0
            /\ calculate_cosine_similarity(vcall.snap.faces[1], x.face)
                   >= aws_similarity_threshold

\* call c is a manual clock-in ask of a student that is answered in this step
Asks(c) == Begins(c) /\ calls'[c].op = "manual_request"

\* C29: a student's manual clock-in ask made while the student is not clocked
\* in leaves a manual request in status pending for that student, schedule and
\* date in the table; an ask made when the student is already clocked in adds
\* no request.
C29_RequestPersistedPending ==
    [][\A c \in CallIds :
          Asks(c) =>
              IF calls'[c].after_check_in
              THEN requests' = requests
              ELSE \E q \in requests' :
                      /\ q.student = calls'[c].student
                      /\ q.schedule = "sch1"
                      /\ q.attendance_date = calls'[c].date
                      /\ q.status = "pending"]_vars

\* C30: a clock_in with a verified face writes an attendance log only when its
\* time lies in the schedule's window from clock_in_opens_at to
\* clock_in_closes_at; outside the window no log is created or changed.
C30_ClockInInsideWindow ==
    [][\A c \in CallIds :
          (calls[c].op = "clock_in" /\ Steps(c) /\ logs' # logs)
          => (clock_in_opens_at <= calls[c].t /\ calls[c].t <= clock_in_closes_at)]_vars

====
